---- MODULE Spec2Model ----
(***************************************************************************)
(* Model of the transaction receiver (src/server.py) and of the load       *)
(* generator (src/bank_simulator.py).                                      *)
(*                                                                         *)
(* Numbers.  An amount is a Python float.  The model draws amounts from    *)
(* the dyadic grid of eighths (0.125): an amount is the integer number of  *)
(* eighths.  Every such float, and every sum of a few of them, is exact in *)
(* binary floating point, so round(x, 2) is exactly round-half-to-even on  *)
(* the decimal value and the model computes what the code computes.  A     *)
(* rounded output is held as an integer number of cents.                   *)
(*                                                                         *)
(* Text.  A timestamp string is a sequence of character codes, so that the *)
(* string order the code sorts by is the order the model sorts by.         *)
(***************************************************************************)
EXTENDS Integers, Sequences, FiniteSets, TLC

VARIABLES
    data_file,   \* DATA_FILE: the lines of transactions.jsonl, in file order
    accepted,    \* history: the records the receiver answered 201 for, in order
    resp,        \* the response of the last request handled by the receiver
    count,       \* generator: args.count
    rate,        \* generator: args.rate
    accounts,    \* generator: args.accounts
    delay,       \* generator: the local delay of main
    i,           \* generator: the loop variable of main
    tx,          \* generator: the transaction made for the current index
    pc,          \* generator: position in main
    attempts,    \* history: the requests.post calls made, in order
    pauses       \* history: the time.sleep calls made, in order

srv_vars == <<data_file, accepted, resp>>
gen_vars == <<count, rate, accounts, delay, i, tx, pc, attempts, pauses>>
vars == <<data_file, accepted, resp, count, rate, accounts, delay, i, tx, pc, attempts, pauses>>

----------------------------------------------------------------------------
(* Bounds of the model *)

MaxLog == 2          \* the receiver accepts at most this many records
MaxCount == 3        \* the generator is run with --count up to this

----------------------------------------------------------------------------
(* Characters and strings *)

ChDot == 46
ChDash == 45
ChZero == 48
ChColon == 58
ChPlus == 43
ChSpace == 32
ChT == 84
ChZ == 90

Digit(d) == ChZero + d

TwoDigits(n) == <<Digit(n \div 10), Digit(n % 10)>>

SixDigits(n) ==
    <<Digit(n \div 100000), Digit((n \div 10000) % 10), Digit((n \div 1000) % 10),
      Digit((n \div 100) % 10), Digit((n \div 10) % 10), Digit(n % 10)>>

RECURSIVE StrLessFrom(_, _, _)
\* a[k..] < b[k..], the two strings being equal before position k
StrLessFrom(a, b, k) ==
    IF k > Len(b) THEN FALSE
    ELSE IF k > Len(a) THEN TRUE
    ELSE IF a[k] # b[k] THEN a[k] < b[k]
    ELSE StrLessFrom(a, b, k + 1)

\* Python's order on str: by code point, a proper prefix first
StrLess(a, b) == StrLessFrom(a, b, 1)

Min(a, b) == IF a <= b THEN a ELSE b
Max(a, b) == IF a >= b THEN a ELSE b

----------------------------------------------------------------------------
(* round(x, 2) *)

\* num/den rounded to the nearest integer, a tie going to the even one
RoundHalfEven(num, den) ==
    LET q == num \div den
        r == num - q * den
    IN  IF 2 * r < den THEN q
        ELSE IF 2 * r > den THEN q + 1
        ELSE IF q % 2 = 0 THEN q ELSE q + 1

\* round(x, 2) of x = k eighths, in cents: 100 * k / 8 = 25 * k / 2
Round2(k) == RoundHalfEven(25 * k, 2)

\* round(total / n, 2) of total = k eighths, in cents
Round2Div(k, n) == RoundHalfEven(25 * k, 2 * n)

----------------------------------------------------------------------------
(* Timestamps *)

\* the model keeps to the days of January 2024
TheYear == <<50, 48, 50, 52>>

\* datetime.astimezone(timezone.utc): a wall time with the UTC offset off
\* (in hours) is the wall time off hours earlier at offset 0
AsTimezoneUTC(dt) ==
    IF dt.hour - dt.off < 0
    THEN [day |-> dt.day - 1, hour |-> dt.hour - dt.off + 24, micro |-> dt.micro, off |-> 0]
    ELSE IF dt.hour - dt.off > 23
    THEN [day |-> dt.day + 1, hour |-> dt.hour - dt.off - 24, micro |-> dt.micro, off |-> 0]
    ELSE [day |-> dt.day, hour |-> dt.hour - dt.off, micro |-> dt.micro, off |-> 0]

\* datetime.isoformat() of an aware datetime at offset 0: the fraction is
\* printed only when the microsecond is not zero
IsoFormat(dt) ==
    TheYear \o <<ChDash>> \o TwoDigits(1) \o <<ChDash>> \o TwoDigits(dt.day)
    \o <<ChT>> \o TwoDigits(dt.hour) \o <<ChColon>> \o TwoDigits(0)
    \o <<ChColon>> \o TwoDigits(0)
    \o (IF dt.micro = 0 THEN <<>> ELSE <<ChDot>> \o SixDigits(dt.micro))
    \o <<ChPlus>> \o TwoDigits(0) \o <<ChColon>> \o TwoDigits(0)

PlusZero == <<ChPlus>> \o TwoDigits(0) \o <<ChColon>> \o TwoDigits(0)

\* str.replace("+00:00", "Z"), and back: the text occurs only as the suffix
ReplaceSuffix(s, old, new) ==
    IF Len(s) >= Len(old) /\ SubSeq(s, Len(s) - Len(old) + 1, Len(s)) = old
    THEN SubSeq(s, 1, Len(s) - Len(old)) \o new
    ELSE s

\* the timestamp the receiver stores
NormalizeTimestamp(dt) == ReplaceSuffix(IsoFormat(AsTimezoneUTC(dt)), PlusZero, <<ChZ>>)

Num2(s, p) == (s[p] - ChZero) * 10 + (s[p + 1] - ChZero)

Num6(s, p) ==
    (s[p] - ChZero) * 100000 + (s[p + 1] - ChZero) * 10000 + (s[p + 2] - ChZero) * 1000
    + (s[p + 3] - ChZero) * 100 + (s[p + 4] - ChZero) * 10 + (s[p + 5] - ChZero)

\* datetime.fromisoformat(s.replace("Z", "+00:00")) of a stored timestamp
FromIsoFormat(s) ==
    LET t == ReplaceSuffix(s, <<ChZ>>, PlusZero)
    IN  [day |-> Num2(t, 9), hour |-> Num2(t, 12), minute |-> Num2(t, 15),
         second |-> Num2(t, 18),
         micro |-> IF t[20] = ChDot THEN Num6(t, 21) ELSE 0]

\* dt.strftime("%Y-%m-%d %H:00")
HourKey(s) ==
    LET dt == FromIsoFormat(s)
    IN  TheYear \o <<ChDash>> \o TwoDigits(1) \o <<ChDash>> \o TwoDigits(dt.day)
        \o <<ChSpace>> \o TwoDigits(dt.hour) \o <<ChColon>> \o TwoDigits(0)

----------------------------------------------------------------------------
(* The request body and the Transaction schema *)

\* The kinds below are the JSON values the schema takes as they are and
\* JSON values no conversion of the schema applies to; a value the schema
\* converts (a number written as a string for amount) is not among them.
\* A JSON value of a request body is [k |-> its kind, v |-> its value]:
\* "str" a string, "num" a number, "datetime" a string holding an ISO-8601
\* date and time with a UTC offset, "text" a string that is neither a number
\* nor a date, "object" a JSON object, "missing" no such key.
\* id: str and account: str
IsStr(f) == f.k = "str"

\* amount: float
IsFloat(f) == f.k = "num"

\* timestamp: datetime
IsDatetime(f) == f.k = "datetime"

\* type: str in place of the Literal
IsLiteralAnyString(f) == f.k = "str"

\* type: Literal["credit", "debit"]
IsLiteral(f) == f.k = "str" /\ f.v \in {"credit", "debit"}

\* class Transaction(BaseModel): the body validates
Transaction(body) ==
    /\ IsStr(body.id)
    /\ IsStr(body.account)
    /\ IsFloat(body.amount)
    /\ IsDatetime(body.timestamp)
    /\ IsLiteral(body.type)

\* tx.model_dump() with the timestamp replaced by its normalized text
Record(body) ==
    [id |-> body.id.v, account |-> body.account.v, amount |-> body.amount.v,
     timestamp |-> NormalizeTimestamp(body.timestamp.v), type |-> body.type.v]

\* json.dumps(record): one line, the values in key order
JsonDumps(record) ==
    <<record.id, record.account, record.amount, record.timestamp, record.type>>

\* json.loads(line)
JsonLoads(line) ==
    [id |-> line[1], account |-> line[2], amount |-> line[3],
     timestamp |-> line[4], type |-> line[5]]

\* open(DATA_FILE, "w") in place of "a": the file is truncated first
WriteLineTruncating(file, line) == <<line>>

\* open(DATA_FILE, "a") and f.write(line + "\n")
WriteLine(file, line) == Append(file, line)

\* read_transactions(): every line of the file, parsed, in file order
read_transactions(file) == [n \in 1..Len(file) |-> JsonLoads(file[n])]

\* the log: what every query reads
log == read_transactions(data_file)

----------------------------------------------------------------------------
(* Aggregation *)

RECURSIVE SumOf(_)
\* sum(tx["amount"] for tx in txs), in eighths
SumOf(txs) ==
    IF txs = <<>> THEN 0 ELSE Head(txs).amount + SumOf(Tail(txs))

\* x put into the list s, descending by timestamp, behind every record whose
\* timestamp is not less than the timestamp of x
InsertByTimestamp(s, x) ==
    LET n == Cardinality({q \in 1..Len(s) : ~StrLess(s[q].timestamp, x.timestamp)})
    IN  SubSeq(s, 1, n) \o <<x>> \o SubSeq(s, n + 1, Len(s))

RECURSIVE SortedByTimestampReverse(_)
\* sorted(txs, key=lambda x: x["timestamp"], reverse=True): descending, stable
SortedByTimestampReverse(s) ==
    IF s = <<>> THEN <<>>
    ELSE InsertByTimestamp(SortedByTimestampReverse(SubSeq(s, 1, Len(s) - 1)), s[Len(s)])

\* x put into the list s, descending by balance, behind every entry whose
\* balance is not less than the balance of x
InsertByBalance(s, x) ==
    LET n == Cardinality({q \in 1..Len(s) : ~(s[q].balance < x.balance)})
    IN  SubSeq(s, 1, n) \o <<x>> \o SubSeq(s, n + 1, Len(s))

RECURSIVE SortedByBalanceReverse(_)
\* sorted(result, key=lambda x: x["balance"], reverse=True): descending, stable
SortedByBalanceReverse(s) ==
    IF s = <<>> THEN <<>>
    ELSE InsertByBalance(SortedByBalanceReverse(SubSeq(s, 1, Len(s) - 1)), s[Len(s)])

\* s[:n] of a list
SliceTo(s, n) ==
    IF n >= 0 THEN SubSeq(s, 1, Min(n, Len(s)))
    ELSE SubSeq(s, 1, Max(Len(s) + n, 0))

\* get_summary
Summary(txs) ==
    IF txs = <<>>
    THEN [total_transactions |-> 0, total_credits |-> 0, total_debits |-> 0,
          net_balance |-> 0, average_transaction |-> 0, unique_accounts |-> 0]
    ELSE LET total_credits == SumOf(SelectSeq(txs, LAMBDA t : t.type = "credit"))
             total_debits == SumOf(SelectSeq(txs, LAMBDA t : t.type = "debit"))
         IN  [total_transactions |-> Len(txs),
              total_credits |-> Round2(total_credits),
              total_debits |-> Round2(total_debits),
              net_balance |-> Round2(total_credits - total_debits),
              average_transaction |-> Round2Div(SumOf(txs), Len(txs)),
              unique_accounts |-> Cardinality({txs[n].account : n \in 1..Len(txs)})]


\* the keys of accounts_data, in the order the loop first meets them
AccountKeys(txs) ==
    LET firsts == {n \in 1..Len(txs) : \A m \in 1..(n - 1) : txs[m].account # txs[n].account}
    IN  [k \in 1..Cardinality(firsts) |->
            txs[CHOOSE n \in firsts : Cardinality({m \in firsts : m < n}) = k - 1].account]

\* accounts_data[account]["count"], counted on credits only
AccCountCreditsOnly(txs, account) ==
    Len(SelectSeq(txs, LAMBDA t : t.account = account /\ t.type = "credit"))

\* accounts_data[account]["count"] after the loop
AccCount(txs, account) == Len(SelectSeq(txs, LAMBDA t : t.account = account))

\* accounts_data[account]["credits"] after the loop, in eighths
AccCredits(txs, account) ==
    SumOf(SelectSeq(txs, LAMBDA t : t.account = account /\ t.type = "credit"))

\* accounts_data[account]["debits"] after the loop: the else branch
AccDebits(txs, account) ==
    SumOf(SelectSeq(txs, LAMBDA t : t.account = account /\ t.type # "credit"))

RECURSIVE AccBalance(_, _)
\* accounts_data[account]["balance"] after the loop: += and -= in file order
AccBalance(txs, account) ==
    IF txs = <<>> THEN 0
    ELSE LET t == txs[Len(txs)]
             before == AccBalance(SubSeq(txs, 1, Len(txs) - 1), account)
         IN  IF t.account # account THEN before
             ELSE IF t.type = "credit" THEN before + t.amount
             ELSE before - t.amount

\* get_by_account
ByAccount(txs) ==
    LET keys == AccountKeys(txs)
        result == [k \in 1..Len(keys) |->
                     [account |-> keys[k],
                      credits |-> Round2(AccCredits(txs, keys[k])),
                      debits |-> Round2(AccDebits(txs, keys[k])),
                      balance |-> Round2(AccBalance(txs, keys[k])),
                      count |-> AccCount(txs, keys[k])]]
    IN  SortedByBalanceReverse(result)

\* get_timeline
Timeline(txs) ==
    LET keys == {HourKey(txs[n].timestamp) : n \in 1..Len(txs)}
        sorted == [k \in 1..Cardinality(keys) |->
                     CHOOSE h \in keys : Cardinality({o \in keys : StrLess(o, h)}) = k - 1]
    IN  [k \in 1..Len(sorted) |->
            [timestamp |-> sorted[k],
             credits |-> Round2(SumOf(SelectSeq(txs, LAMBDA t :
                            HourKey(t.timestamp) = sorted[k] /\ t.type = "credit"))),
             debits |-> Round2(SumOf(SelectSeq(txs, LAMBDA t :
                            HourKey(t.timestamp) = sorted[k] /\ t.type # "credit"))),
             count |-> Len(SelectSeq(txs, LAMBDA t : HourKey(t.timestamp) = sorted[k]))]]

\* get_recent
Recent(txs, limit) ==
    SliceTo(SortedByTimestampReverse(txs), limit)

\* get_type_distribution
TypeDistribution(txs) ==
    [credit |-> Len(SelectSeq(txs, LAMBDA t : t.type = "credit")),
     debit |-> Len(SelectSeq(txs, LAMBDA t : t.type = "debit"))]

----------------------------------------------------------------------------
(* The requests the model sends *)

Amounts == {-1, 1, 2, 3}              \* -0.125, 0.125, 0.25, 0.375
Types == {"credit", "debit"}

\* the timestamps sent, each with its UTC offset: 12:00:00+00:00,
\* 12:00:00.500000+00:00, 13:00:00+01:00 and 12:00:00+01:00 of 2 January.
\* A timestamp without an offset is read in the zone of the host and is not
\* among them.
Datetimes ==
    {[day |-> 2, hour |-> 12, micro |-> 0, off |-> 0],
     [day |-> 2, hour |-> 12, micro |-> 500000, off |-> 0],
     [day |-> 2, hour |-> 13, micro |-> 0, off |-> 1],
     [day |-> 2, hour |-> 12, micro |-> 0, off |-> 1]}

NoDatetime == [day |-> 0, hour |-> 0, micro |-> 0, off |-> 0]

Body(d, a, m, t, y) ==
    [id |-> [k |-> "str", v |-> d], account |-> [k |-> "str", v |-> a],
     amount |-> [k |-> "num", v |-> m], timestamp |-> [k |-> "datetime", v |-> t],
     type |-> [k |-> "str", v |-> y]]

Noon == [day |-> 2, hour |-> 12, micro |-> 0, off |-> 0]

\* bodies the schema accepts: every amount and type on one account, both
\* types on a second account, and every timestamp form on one record
GoodBodies ==
    {Body("tx-1", "A123", m, Noon, y) : m \in Amounts, y \in Types}
    \cup {Body("tx-1", "B456", 2, Noon, y) : y \in Types}
    \cup {Body("tx-1", "A123", 2, t, "credit") : t \in Datetimes}

BaseBody == Body("tx-1", "A123", 2, Noon, "credit")

\* one field of a good body missing, of a type the schema cannot take, or
\* (for type) a string outside the two literals
BadBodies ==
    {[BaseBody EXCEPT !.id = [k |-> kk, v |-> ""]] : kk \in {"missing", "object"}}
    \cup {[BaseBody EXCEPT !.account = [k |-> kk, v |-> ""]] : kk \in {"missing", "object"}}
    \cup {[BaseBody EXCEPT !.amount = [k |-> kk, v |-> 0]] : kk \in {"missing", "text"}}
    \cup {[BaseBody EXCEPT !.timestamp = [k |-> kk, v |-> NoDatetime]] : kk \in {"missing", "text"}}
    \cup {[BaseBody EXCEPT !.type = [k |-> "missing", v |-> ""]]}
    \cup {[BaseBody EXCEPT !.type = [k |-> "str", v |-> "invalid"]]}

DefaultLimit == 10
Limits == {-1, 0, 1, 2, DefaultLimit}

----------------------------------------------------------------------------
(* The receiver: one action per route.  A handler is an async def without *)
(* an await, so it runs to its end before the next request is handled.    *)

NoResp == [op |-> "none", req |-> <<>>, status |-> 0, body |-> <<>>]

\* GET /
root ==
    /\ \E present \in BOOLEAN :
          resp' = [op |-> "root", req |-> <<>>, status |-> 200,
                   body |-> IF present THEN "index.html" ELSE "Dashboard not found"]
    /\ UNCHANGED <<data_file, accepted>>

\* GET /health
health ==
    /\ resp' = [op |-> "health", req |-> <<>>, status |-> 200, body |-> [status |-> "ok"]]
    /\ UNCHANGED <<data_file, accepted>>

\* POST /transactions with a body the schema accepts
Accept(body) ==
    /\ Len(data_file) < MaxLog
    /\ data_file' = WriteLine(data_file, JsonDumps(Record(body)))
    /\ accepted' = Append(accepted, Record(body))
    /\ resp' = [op |-> "recieve_transaction", req |-> body, status |-> 201,
                body |-> [status |-> "accepted", id |-> body.id.v]]

\* POST /transactions with a body the schema refuses: the handler is not run
Reject(body) ==
    /\ resp' = [op |-> "recieve_transaction", req |-> body, status |-> 422,
                body |-> [detail |-> "validation error"]]
    /\ UNCHANGED <<data_file, accepted>>

\* POST /transactions
recieve_transaction ==
    \E body \in GoodBodies \cup BadBodies :
        IF Transaction(body) THEN Accept(body) ELSE Reject(body)

\* GET /api/analytics/summary
get_summary ==
    /\ resp' = [op |-> "get_summary", req |-> <<>>, status |-> 200,
                body |-> Summary(read_transactions(data_file))]
    /\ UNCHANGED <<data_file, accepted>>

\* GET /api/analytics/by-account
get_by_account ==
    /\ resp' = [op |-> "get_by_account", req |-> <<>>, status |-> 200,
                body |-> ByAccount(read_transactions(data_file))]
    /\ UNCHANGED <<data_file, accepted>>

\* GET /api/analytics/timeline
get_timeline ==
    /\ resp' = [op |-> "get_timeline", req |-> <<>>, status |-> 200,
                body |-> Timeline(read_transactions(data_file))]
    /\ UNCHANGED <<data_file, accepted>>

\* GET /api/analytics/recent?limit=N
get_recent ==
    /\ \E limit \in Limits :
          resp' = [op |-> "get_recent", req |-> limit, status |-> 200,
                   body |-> Recent(read_transactions(data_file), limit)]
    /\ UNCHANGED <<data_file, accepted>>

\* GET /api/analytics/type-distribution
get_type_distribution ==
    /\ resp' = [op |-> "get_type_distribution", req |-> <<>>, status |-> 200,
                body |-> TypeDistribution(read_transactions(data_file))]
    /\ UNCHANGED <<data_file, accepted>>

NoTx == [account |-> "", amount |-> 0, type |-> ""]

GenIdle ==
    /\ count = 0 /\ rate = "1.0" /\ accounts = <<>> /\ delay = "0.0" /\ i = 0
    /\ tx = NoTx /\ pc = "idle" /\ attempts = <<>> /\ pauses = <<>>

Init ==
    /\ data_file = <<>>
    /\ accepted = <<>>
    /\ resp = NoResp
    /\ GenIdle

Next ==
    \/ (root /\ UNCHANGED gen_vars)
    \/ (health /\ UNCHANGED gen_vars)
    \/ (recieve_transaction /\ UNCHANGED gen_vars)
    \/ (get_summary /\ UNCHANGED gen_vars)
    \/ (get_by_account /\ UNCHANGED gen_vars)
    \/ (get_timeline /\ UNCHANGED gen_vars)
    \/ (get_recent /\ UNCHANGED gen_vars)
    \/ (get_type_distribution /\ UNCHANGED gen_vars)

Spec == Init /\ [][Next]_vars


----------------------------------------------------------------------------
(* The generator: main of bank_simulator.py, one action per step.  It is   *)
(* one thread: a step is taken only when the one before it has returned.   *)

\* --rate is a float: the model runs the generator at these rates.  At the
\* rate 1e-320 the float division 1.0 / rate gives inf.
Rates == {"-1.0", "0.0", "1e-320", "1.0", "2.0"}

RatePositive(r) == r \in {"1e-320", "1.0", "2.0"}

\* 1.0 / r of a positive rate
Reciprocal(r) ==
    CASE r = "1.0" -> "1.0"
      [] r = "2.0" -> "0.5"
      [] r = "1e-320" -> "inf"

\* delay = 1.0/args.rate if args.rate > 0 else 0.0
Delay(r) == IF RatePositive(r) THEN Reciprocal(r) ELSE "0.0"

\* the truth value of a float
Truthy(d) == d # "0.0"

\* time.sleep(d) raises OverflowError
SleepRaises(d) == d = "inf"

\* --accounts takes zero or more values
AccountLists == {<<>>, <<"A123">>, <<"A123", "B456">>}

\* round(random.uniform(10, 2000.0), 2): 10.00 and 2000.00, in eighths
GenAmounts == {80, 16000}

Outcomes == {"2xx", "non2xx", "exception"}

\* an except clause that re-raises: the run ends at a transport exception
AfterPostAborting(outcome) == IF outcome = "exception" THEN "crashed" ELSE "pause"

\* where main goes on after the try statement: both the printed response
\* and the caught exception fall through to the pause
AfterPost(outcome) == "pause"

\* delay = ...; for i in range(1, args.count + 1)
main_delay ==
    /\ pc = "start"
    /\ delay' = Delay(rate)
    /\ i' = 1
    /\ pc' = "for"
    /\ UNCHANGED <<count, rate, accounts, tx, attempts, pauses>>

\* the loop test of for i in range(1, args.count + 1)
main_for ==
    /\ pc = "for"
    /\ pc' = IF i <= count THEN "make_tx" ELSE "done"
    /\ UNCHANGED <<count, rate, accounts, delay, i, tx, attempts, pauses>>

\* tx = make_tx(i, args.accounts): random.choice of an empty list raises
\* IndexError, which nothing catches.  The fresh uuid and the clock reading
\* are not part of the model.
make_tx ==
    /\ pc = "make_tx"
    /\ IF accounts = <<>>
       THEN pc' = "crashed" /\ tx' = tx
       ELSE /\ \E a \in 1..Len(accounts), m \in GenAmounts, y \in Types :
                  tx' = [account |-> accounts[a], amount |-> m, type |-> y]
            /\ pc' = "post"
    /\ UNCHANGED <<count, rate, accounts, delay, i, attempts, pauses>>

\* try: r = requests.post(...); print(...)  except Exception as e: print(...)
main_post ==
    /\ pc = "post"
    /\ \E outcome \in Outcomes :
          /\ attempts' = Append(attempts, [index |-> i, outcome |-> outcome])
          /\ pc' = AfterPost(outcome)
    /\ UNCHANGED <<count, rate, accounts, delay, i, tx, pauses>>

\* if delay and i < args.count: time.sleep(delay); then the next index
main_sleep ==
    /\ pc = "pause"
    /\ IF Truthy(delay) /\ i < count
       THEN IF SleepRaises(delay)
            THEN pc' = "crashed" /\ UNCHANGED <<i, pauses>>
            ELSE /\ pauses' = Append(pauses, [after |-> i, seconds |-> delay])
                 /\ i' = i + 1
                 /\ pc' = "for"
       ELSE /\ i' = i + 1
            /\ pc' = "for"
            /\ pauses' = pauses
    /\ UNCHANGED <<count, rate, accounts, delay, tx, attempts>>

GenInit ==
    /\ data_file = <<>>
    /\ accepted = <<>>
    /\ resp = NoResp
    /\ count \in (-1)..MaxCount
    /\ rate \in Rates
    /\ accounts \in AccountLists
    /\ delay = "0.0"
    /\ i = 0
    /\ tx = NoTx
    /\ pc = "start"
    /\ attempts = <<>>
    /\ pauses = <<>>

GenNext ==
    \/ (main_delay /\ UNCHANGED srv_vars)
    \/ (main_for /\ UNCHANGED srv_vars)
    \/ (make_tx /\ UNCHANGED srv_vars)
    \/ (main_post /\ UNCHANGED srv_vars)
    \/ (main_sleep /\ UNCHANGED srv_vars)

\* the generator is sequential code: a step that can be taken is taken
GenSpec == GenInit /\ [][GenNext]_vars /\ WF_vars(GenNext)


----------------------------------------------------------------------------
(* Properties of the receiver *)

Accepted(r) == r.op = "recieve_transaction" /\ r.status = 201
Rejected(r) == r.op = "recieve_transaction" /\ r.status = 422

\* the data model of a record: a non-negative amount of two decimals (an
\* even number of eighths) and one of the two types
TwoDecimals(k) == k % 2 = 0
Cents(k) == (25 * k) \div 2
ValidRecord(r) == r.amount >= 0 /\ TwoDecimals(r.amount) /\ r.type \in {"credit", "debit"}

\* C1: when POST /transactions accepts a valid record, the summary after it
\* counts one transaction more than the summary before it, the sum of the
\* record's type is greater by the record's amount and the sum of the other
\* type is the same.
C1_SummaryReflectsSubmission ==
    [][(Accepted(resp') /\ ValidRecord(Record(resp'.req))) =>
        LET before == Summary(log)
            after == Summary(log')
            r == Record(resp'.req)
        IN  /\ after.total_transactions = before.total_transactions + 1
            /\ r.type = "credit" =>
                  /\ after.total_credits = before.total_credits + Cents(r.amount)
                  /\ after.total_debits = before.total_debits
            /\ r.type = "debit" =>
                  /\ after.total_debits = before.total_debits + Cents(r.amount)
                  /\ after.total_credits = before.total_credits]_vars

\* C2: in every summary response, total_credits - total_debits equals
\* net_balance, each field taken as returned (after its own rounding).
C2_NetBalanceIdentity ==
    resp.op = "get_summary" =>
        resp.body.total_credits - resp.body.total_debits = resp.body.net_balance

\* a body that does not conform: a field is missing, a field has a type the
\* schema does not take, or type is a string other than credit and debit
NonConforming(body) ==
    \/ \E f \in {body.id, body.account, body.amount, body.timestamp, body.type} :
          f.k = "missing"
    \/ body.id.k # "str" \/ body.account.k # "str" \/ body.type.k # "str"
    \/ body.amount.k # "num"
    \/ body.timestamp.k # "datetime"
    \/ body.type.v \notin {"credit", "debit"}

C4_AppendOnly ==
    [][/\ log' = accepted'
       /\ IF Accepted(resp') /\ data_file' # data_file
          THEN log' = Append(log, Record(resp'.req))
          ELSE log' = log]_vars

C4_Witness ==
    /\ Accepted(resp)
    /\ Len(log) >= 2
    /\ log[1] # log[2]

RECURSIVE SumCounts(_)
SumCounts(entries) ==
    IF entries = <<>> THEN 0 ELSE Head(entries).count + SumCounts(Tail(entries))

\* C5: the counts of the by-account entries add up to total_transactions of
\* the summary of the same log.
C5_CountsSum ==
    /\ resp.op = "get_by_account" =>
          SumCounts(resp.body) = Summary(log).total_transactions
    /\ resp.op = "get_summary" =>
          resp.body.total_transactions = SumCounts(ByAccount(log))

C5_Witness ==
    /\ resp.op = "get_by_account"
    /\ Len(resp.body) = 2
    /\ Len(log) = 2

\* the instant of a stored timestamp, as the list of its fields
Instant(s) ==
    LET dt == FromIsoFormat(s)
    IN  <<dt.day, dt.hour, dt.minute, dt.second, dt.micro>>

\* the instant of s is later than the instant of t
Later(s, t) == StrLess(Instant(t), Instant(s))

\* C6: the recent query lists records latest first: no record of the output
\* stands behind a record of an earlier instant, and no record of the log is
\* later than the first record of the output.
C6_RecentChronological ==
    resp.op = "get_recent" =>
        /\ \A p, q \in 1..Len(resp.body) :
              p < q => ~Later(resp.body[q].timestamp, resp.body[p].timestamp)
        /\ Len(resp.body) >= 1 =>
              \A n \in 1..Len(log) : ~Later(log[n].timestamp, resp.body[1].timestamp)

\* C8: every record of the log has a non-negative amount and the type credit
\* or debit.
C8_DataModelInvariant ==
    \A n \in 1..Len(log) :
        log[n].amount >= 0 /\ log[n].type \in {"credit", "debit"}

\* C9: by-account has one entry for each account of the log; its credits and
\* debits are the sums of the account's credit and debit amounts, its count
\* the number of the account's records, its balance credits minus debits.
C9_ByAccountExact ==
    resp.op = "get_by_account" =>
        LET names == {log[n].account : n \in 1..Len(log)}
        IN  /\ Len(resp.body) = Cardinality(names)
            /\ {resp.body[k].account : k \in 1..Len(resp.body)} = names
            /\ \A k \in 1..Len(resp.body) :
                  LET e == resp.body[k]
                      mine(y) == SelectSeq(log, LAMBDA t : t.account = e.account /\ t.type = y)
                  IN  /\ 2 * e.credits = 25 * SumOf(mine("credit"))
                      /\ 2 * e.debits = 25 * SumOf(mine("debit"))
                      /\ e.count = Len(mine("credit")) + Len(mine("debit"))
                      /\ e.balance = e.credits - e.debits

\* C10: the recent query with limit N returns min(N, size of the log)
\* records when N >= 0 and no record when N < 0.
C10_RecentAtMostLimit ==
    resp.op = "get_recent" =>
        Len(resp.body) = IF resp.req >= 0 THEN Min(resp.req, Len(log)) ELSE 0


----------------------------------------------------------------------------
(* Properties of the generator *)

\* the pauses a run of n attempts at the rate r is to make: 1/r seconds
\* after every attempt but the last at a positive rate, none otherwise
PausesOf(n, r) ==
    IF r \in {"1.0", "2.0", "1e-320"}
    THEN [k \in 1..Max(n - 1, 0) |->
             [after |-> k,
              seconds |-> CASE r = "1.0" -> "1.0" [] r = "2.0" -> "0.5" [] OTHER -> "inf"]]
    ELSE <<>>

\* the run so far: not aborted, the attempts made are those of the indices
\* 1, 2, ... in this order, one each, every pause stands between the attempt
\* it follows and the next one, and a finished run has made the attempts
\* of all indices 1..count and the pauses between them
RunAsClaimed ==
    /\ pc # "crashed"
    /\ \A k \in 1..Len(attempts) : attempts[k].index = k
    /\ Len(attempts) <= Max(count, 0)
    /\ pauses = PausesOf(Len(pauses) + 1, rate)
    /\ Len(pauses) <= Len(attempts)
    /\ (pc = "post" /\ PausesOf(2, rate) # <<>>) => Len(pauses) = Len(attempts)
    /\ pc = "done" =>
          /\ Len(attempts) = Max(count, 0)
          /\ pauses = PausesOf(count, rate)

\* C7, as claimed: whatever the inputs and whatever attempts fail, the run
\* makes one attempt per index 1..N in increasing order, is never aborted,
\* and pauses 1/R seconds after every attempt but the last when R > 0 and
\* never when R <= 0.
C7_RunAsClaimed == RunAsClaimed

\* the account list is not empty and the rate is either not positive or has
\* a delay 1/R that time.sleep takes
C7_Inputs == accounts # <<>> /\ rate \in {"-1.0", "0.0", "1.0", "2.0"}

\* C7, amended: run with a non-empty account list, at a rate R <= 0 or at a
\* rate R > 0 whose delay 1/R time.sleep takes, the generator makes one
\* attempt per index 1..N in increasing order whatever attempts fail, is
\* never aborted, pauses as claimed, and comes to its end.
C7_RunAsClaimedOnGoodInputs ==
    /\ [](C7_Inputs => RunAsClaimed)
    /\ (C7_Inputs ~> pc = "done")

C7_Witness ==
    /\ pc = "done"
    /\ count = 3
    /\ rate = "2.0"
    /\ Len(attempts) = 3
    /\ Len(pauses) = 2
    /\ attempts[1].outcome = "exception"
    /\ attempts[2].outcome = "non2xx"

====
